---- MODULE Spec2Model ----
(***************************************************************************)
(* Model of src/index.js: the PerplexityBot pipeline.                      *)
(*                                                                         *)
(*  - parseStockData is modelled character by character: a text is a       *)
(*    sequence of one-character strings and each of the four regular       *)
(*    expressions of `patterns` is a matcher that follows the JavaScript   *)
(*    matching rules (leftmost start, greedy quantifiers, backtracking,    *)
(*    the i and g flags).                                                  *)
(*  - runQuery, initBrowser, queryPerplexity, saveToCSV and cleanup are    *)
(*    modelled as interleaved asynchronous calls: one action per segment   *)
(*    of code between two awaits on an external operation.                 *)
(***************************************************************************)
EXTENDS Integers, Sequences, FiniteSets, TLC

(***************************************************************************)
(* Characters and character classes of the regular expressions.           *)
(***************************************************************************)
UpperSeq ==
  <<"A","B","C","D","E","F","G","H","I","J","K","L","M",
    "N","O","P","Q","R","S","T","U","V","W","X","Y","Z">>

LowerSeq ==
  <<"a","b","c","d","e","f","g","h","i","j","k","l","m",
    "n","o","p","q","r","s","t","u","v","w","x","y","z">>

DigitSeq == <<"0","1","2","3","4","5","6","7","8","9">>

\* [A-Z] without the i flag
Upper == {UpperSeq[i] : i \in DOMAIN UpperSeq}

Lower == {LowerSeq[i] : i \in DOMAIN LowerSeq}

\* [A-Z] under the i flag
Letter == Upper \cup Lower

\* \d
Digit == {DigitSeq[i] : i \in DOMAIN DigitSeq}

\* [0-9.]
DigitDot == Digit \cup {"."}

\* \s (the white space that occurs in the texts of the model)
Space == {" ", "\n", "\t"}

\* \w
WordChar == Letter \cup Digit \cup {"_"}

\* the characters "." does not match
LineTerminator == {"\n"}

\* case folding of the i flag
ToLower(c) ==
  IF c \in Upper
    THEN LowerSeq[CHOOSE i \in DOMAIN UpperSeq : UpperSeq[i] = c]
    ELSE c

\* the literal "billion" of the patterns
Billion == <<"b","i","l","l","i","o","n">>

DigitVal(c) == (CHOOSE i \in DOMAIN DigitSeq : DigitSeq[i] = c) - 1

(***************************************************************************)
(* String primitives.                                                      *)
(***************************************************************************)
\* index of the last character of the longest run of characters of class C
\* that starts at i (i - 1 when the run is empty): a greedy C*
RunEnd(text, i, C) ==
  (CHOOSE j \in i..(Len(text) + 1) :
     /\ j = Len(text) + 1 \/ text[j] \notin C
     /\ \A k \in i..(j - 1) : text[k] \in C) - 1

\* index of the first occurrence of character c at or after i, 0 when none
IndexOf(text, i, c) ==
  LET j == CHOOSE q \in i..(Len(text) + 1) :
             /\ q = Len(text) + 1 \/ text[q] = c
             /\ \A k \in i..(q - 1) : text[k] # c
  IN  IF j = Len(text) + 1 THEN 0 ELSE j

\* the literal lit occurs at i (ci: under the i flag)
MatchLit(text, i, lit, ci) ==
  /\ i >= 1
  /\ i + Len(lit) - 1 <= Len(text)
  /\ \A k \in DOMAIN lit :
       (IF ci THEN ToLower(text[i + k - 1]) ELSE text[i + k - 1]) = lit[k]

\* String.prototype.substring(from - 1, to) on 1-based positions
Slice(text, from, to) ==
  IF from > to THEN <<>> ELSE SubSeq(text, from, to)

\* String.prototype.trim
trim(s) ==
  LET first == RunEnd(s, 1, Space) + 1
      last == CHOOSE j \in 0..Len(s) :
                /\ j = 0 \/ s[j] \notin Space
                /\ \A k \in (j + 1)..Len(s) : s[k] \in Space
  IN  Slice(s, first, last)

\* parseFloat on a string of [0-9.]+ : the longest prefix of the shape
\* digits [ "." digits ]; NaN when that prefix holds no digit.  The value
\* is num / den.
RECURSIVE DigitsValue(_, _, _)
DigitsValue(s, i, to) ==
  IF to < i THEN 0 ELSE DigitsValue(s, i, to - 1) * 10 + DigitVal(s[to])

RECURSIVE Pow10(_)
Pow10(n) == IF n = 0 THEN 1 ELSE 10 * Pow10(n - 1)

parseFloat(s) ==
  LET ie == RunEnd(s, 1, Digit)
      hasDot == ie + 1 <= Len(s) /\ s[ie + 1] = "."
      fe == IF hasDot THEN RunEnd(s, ie + 2, Digit) ELSE ie
      nfrac == IF hasDot THEN fe - (ie + 1) ELSE 0
      ndigits == ie + nfrac
  IN  IF ndigits = 0
        THEN [nan |-> TRUE, num |-> 0, den |-> 1]
        ELSE [nan |-> FALSE,
              num |-> DigitsValue(s, 1, ie) * Pow10(nfrac)
                        + (IF nfrac > 0 THEN DigitsValue(s, ie + 2, fe) ELSE 0),
              den |-> Pow10(nfrac)]

\* parseFloat(marketCap) <= 2.0 (false for NaN)
\* a threshold test that excludes 2.0 itself
SmallCapStrict(marketCap) ==
  LET v == parseFloat(marketCap) IN ~v.nan /\ v.num < 2 * v.den

SmallCap(marketCap) ==
  LET v == parseFloat(marketCap) IN ~v.nan /\ v.num <= 2 * v.den

(***************************************************************************)
(* The regular expressions of parseStockData.  A match is a record: ok,    *)
(* the capture groups g1, g2, g3 and end, the index of its last character  *)
(* (the regular expression's lastIndex after the match).                   *)
(***************************************************************************)
NoMatch == [ok |-> FALSE, g1 |-> <<>>, g2 |-> <<>>, g3 |-> <<>>, end |-> 0]

\* \$([0-9.]+)\s*billion with the "$" at d.  The classes exclude what
\* follows them, so the greedy runs are the only way to match.
CapTail(text, d, ci) ==
  LET e == RunEnd(text, d + 1, DigitDot)
      w == RunEnd(text, e + 1, Space)
  IN  IF /\ d >= 1
         /\ d <= Len(text)
         /\ text[d] = "$"
         /\ e >= d + 1
         /\ MatchLit(text, w + 1, Billion, ci)
        THEN [ok |-> TRUE, cap |-> SubSeq(text, d + 1, e), end |-> w + Len(Billion)]
        ELSE [ok |-> FALSE, cap |-> <<>>, end |-> 0]

\* [^$]*\$([0-9.]+)\s*billion from position i: [^$]* stops at the first "$"
DollarTail(text, i, ci) == CapTail(text, IndexOf(text, i, "$"), ci)

\* /([A-Z]{1,5})\s*\(([^)]+)\)[^$]*\$([0-9.]+)\s*billion/gi at start s
Pattern1At(text, s) ==
  LET e1 == RunEnd(text, s, Letter)
      w == RunEnd(text, e1 + 1, Space)
      open == w + 1
      close == IndexOf(text, open + 1, ")")
      t == DollarTail(text, close + 1, TRUE)
  IN  IF /\ e1 >= s
         /\ e1 - s + 1 <= 5
         /\ open <= Len(text)
         /\ text[open] = "("
         /\ close > open + 1
         /\ t.ok
        THEN [ok |-> TRUE, g1 |-> SubSeq(text, s, e1),
              g2 |-> SubSeq(text, open + 1, close - 1),
              g3 |-> t.cap, end |-> t.end]
        ELSE NoMatch

\* /([^(]+)\s*\(([A-Z]{1,5})\)[^$]*\$([0-9.]+)\s*billion/gi at start s
Pattern2At(text, s) ==
  LET open == IndexOf(text, s, "(")
      e2 == RunEnd(text, open + 1, Letter)
      close == e2 + 1
      t == DollarTail(text, close + 1, TRUE)
  IN  IF /\ open > s
         /\ e2 >= open + 1
         /\ e2 - open <= 5
         /\ close <= Len(text)
         /\ text[close] = ")"
         /\ t.ok
        THEN [ok |-> TRUE, g1 |-> SubSeq(text, s, open - 1),
              g2 |-> SubSeq(text, open + 1, e2),
              g3 |-> t.cap, end |-> t.end]
        ELSE NoMatch

\* /([A-Z]{1,5}):\s*([^-]+)\s*-[^$]*\$([0-9.]+)\s*billion/gi at start s.
\* When "-" follows the white space after ":" directly, \s* gives its last
\* character back to ([^-]+).
Pattern3At(text, s) ==
  LET e1 == RunEnd(text, s, Letter)
      colon == e1 + 1
      w == RunEnd(text, colon + 1, Space)
      dash == IndexOf(text, w + 1, "-")
      from == IF dash = w + 1 THEN w ELSE w + 1
      t == DollarTail(text, dash + 1, TRUE)
  IN  IF /\ e1 >= s
         /\ e1 - s + 1 <= 5
         /\ colon <= Len(text)
         /\ text[colon] = ":"
         /\ dash > 0
         /\ from > colon
         /\ t.ok
        THEN [ok |-> TRUE, g1 |-> SubSeq(text, s, e1),
              g2 |-> SubSeq(text, from, dash - 1),
              g3 |-> t.cap, end |-> t.end]
        ELSE NoMatch

\* index of the last character of the line that holds position s
LineEnd(text, s) ==
  LET nl == IndexOf(text, s, "\n") IN IF nl = 0 THEN Len(text) ELSE nl - 1

\* /(?=.*([A-Z]{2,5}))(?=.*\$([0-9.]+)\s*billion)(.+)/gi at start s: both
\* lookaheads search the rest of the line, (.+) is the rest of the line
Pattern4At(text, s) ==
  LET le == LineEnd(text, s)
  IN  IF /\ s <= le
         /\ \E k \in s..(le - 1) : text[k] \in Letter /\ text[k + 1] \in Letter
         /\ \E d \in s..le : CapTail(text, d, TRUE).ok
        THEN [ok |-> TRUE, g1 |-> <<>>, g2 |-> <<>>,
              g3 |-> SubSeq(text, s, le), end |-> le]
        ELSE NoMatch

\* the patterns array
NumPatterns == 4

PatternAt(p, text, s) ==
  CASE p = 1 -> Pattern1At(text, s)
    [] p = 2 -> Pattern2At(text, s)
    [] p = 3 -> Pattern3At(text, s)
    [] p = 4 -> Pattern4At(text, s)

\* pattern.exec(responseText) with lastIndex = s - 1: the leftmost start
\* at or after s that matches
exec(p, text, lastIndex) ==
  LET s == CHOOSE q \in (lastIndex + 1)..(Len(text) + 1) :
             /\ q = Len(text) + 1 \/ PatternAt(p, text, q).ok
             /\ \A r \in (lastIndex + 1)..(q - 1) : ~PatternAt(p, text, r).ok
  IN  IF s = Len(text) + 1 THEN NoMatch ELSE PatternAt(p, text, s)

(***************************************************************************)
(* parseStockData: deriving, checking and normalizing one candidate.       *)
(***************************************************************************)
\* program constants of parseStockData
MaxStocks == 15

FallbackThreshold == 5

FallbackLimit == 10

CompanyMaxLen == 50

\* line.match(/\b([A-Z]{2,5})\b/): the first run of 2 to 5 upper-case
\* letters with a word boundary on both sides; <<>> when there is none
TickerWordAt(line, p) ==
  LET e == RunEnd(line, p, Upper)
  IN  /\ p = 1 \/ line[p - 1] \notin WordChar
      /\ e - p + 1 >= 2
      /\ e - p + 1 <= 5
      /\ e = Len(line) \/ line[e + 1] \notin WordChar

tickerMatch(line) ==
  LET p == CHOOSE q \in 1..(Len(line) + 1) :
             /\ q = Len(line) + 1 \/ TickerWordAt(line, q)
             /\ \A r \in 1..(q - 1) : ~TickerWordAt(line, r)
  IN  IF p = Len(line) + 1 THEN <<>> ELSE SubSeq(line, p, RunEnd(line, p, Upper))

\* line.match(/\$([0-9.]+)\s*billion/) (ci: with the i flag): the number of
\* the first match; <<>> when there is none
capMatch(line, ci) ==
  LET d == CHOOSE q \in 1..(Len(line) + 1) :
             /\ q = Len(line) + 1 \/ CapTail(line, q, ci).ok
             /\ \A r \in 1..(q - 1) : ~CapTail(line, r, ci).ok
  IN  IF d = Len(line) + 1 THEN <<>> ELSE CapTail(line, d, ci).cap

\* s without the characters at the positions of Removed
Without(s, Removed) ==
  LET kept == SelectSeq([i \in 1..Len(s) |-> i], LAMBDA i : i \notin Removed)
  IN  [k \in 1..Len(kept) |-> s[kept[k]]]

\* s.replace(/\([^)]*\)/g, ''): a match runs from a "(" to the first ")"
\* after it; a "(" inside a match spans a part of that match
RemoveParens(s) ==
  LET Opens == {j \in 1..Len(s) : s[j] = "(" /\ IndexOf(s, j + 1, ")") > 0}
  IN  Without(s, UNION {j..IndexOf(s, j + 1, ")") : j \in Opens})

\* s.replace(/\$[0-9.]+\s*billion/g, '')
RemoveCaps(s) ==
  LET Dollars == {d \in 1..Len(s) : CapTail(s, d, FALSE).ok}
  IN  Without(s, UNION {d..CapTail(s, d, FALSE).end : d \in Dollars})

\* lines 104-118: ticker, company and marketCap of a match of pattern p;
\* <<>> stands for undefined and for the empty string (both are falsy)
Candidate(p, m) ==
  IF p = 4
    THEN LET line == m.g3
             tm == tickerMatch(line)
             cm == capMatch(line, FALSE)
         IN  IF tm # <<>> /\ cm # <<>>
               THEN [ticker |-> tm,
                     company |-> trim(RemoveCaps(RemoveParens(line))),
                     marketCap |-> cm]
               ELSE [ticker |-> <<>>, company |-> <<>>, marketCap |-> <<>>]
    ELSE [ticker |-> trim(m.g1), company |-> trim(m.g2), marketCap |-> trim(m.g3)]

\* line 120: ticker && company && marketCap && parseFloat(marketCap) <= 2.0
Accepted(c) ==
  /\ c.ticker # <<>>
  /\ c.company # <<>>
  /\ c.marketCap # <<>>
  /\ SmallCap(c.marketCap)

\* ticker.replace(/[^A-Z]/g, '')
NormalizeTicker(ticker) == SelectSeq(ticker, LAMBDA c : c \in Upper)

\* company.replace(/^\d+\.\s*/, '').trim()
NormalizeCompany(company) ==
  LET de == RunEnd(company, 1, Digit)
  IN  IF de >= 1 /\ de + 1 <= Len(company) /\ company[de + 1] = "."
        THEN trim(Slice(company, RunEnd(company, de + 2, Space) + 1, Len(company)))
        ELSE trim(company)

\* stocks.find(s => s.ticker === ticker)
\* a duplicate test that compares the new ticker with the company field of
\* the accepted records instead of their ticker field
HasTickerByCompany(stocks, ticker) == \E i \in DOMAIN stocks : stocks[i].company = ticker

HasTicker(stocks, ticker) == \E i \in DOMAIN stocks : stocks[i].ticker = ticker

\* `$${marketCap}B`
FormatCap(marketCap) == <<"$">> \o marketCap \o <<"B">>

\* lines 120-132: the stocks array after a candidate of the strategy pass
AcceptCandidate(stocks, c, now) ==
  IF Accepted(c)
    THEN LET ticker == NormalizeTicker(c.ticker)
             company == NormalizeCompany(c.company)
         IN  IF ~HasTicker(stocks, ticker)
               THEN Append(stocks,
                      [ticker |-> ticker,
                       company |-> Slice(company, 1,
                                     IF Len(company) < CompanyMaxLen
                                       THEN Len(company) ELSE CompanyMaxLen),
                       marketCap |-> FormatCap(c.marketCap),
                       extractedAt |-> now])
               ELSE stocks
    ELSE stocks

\* `Company for ${ticker}`
PlaceholderCompany(ticker) ==
  <<"C","o","m","p","a","n","y"," ","f","o","r"," ">> \o ticker

\* lines 143-158: the stocks array after one line of the fallback
FallbackLine(stocks, line, now) ==
  LET tm == tickerMatch(line)
      cm == capMatch(line, TRUE)
  IN  IF tm # <<>> /\ cm # <<>> /\ SmallCap(cm) /\ ~HasTicker(stocks, tm)
        THEN Append(stocks,
               [ticker |-> tm,
                company |-> PlaceholderCompany(tm),
                marketCap |-> FormatCap(cm),
                extractedAt |-> now])
        ELSE stocks

(***************************************************************************)
(* parseStockData as a loop: the parser state is the phase of the loop,    *)
(* the pattern at work, its lastIndex (in the fallback: the offset of the  *)
(* current line) and the stocks array.                                     *)
(***************************************************************************)
ParseStart ==
  [phase |-> "strategy", pat |-> 1, lastIndex |-> 0, stocks |-> <<>>]

\* a fallback that is entered whatever the strategy loops have accepted
AfterStrategiesAlways(stocks) ==
  [phase |-> "fallback", pat |-> NumPatterns, lastIndex |-> 0, stocks |-> stocks]

\* line 136, reached when the last pattern is exhausted
AfterStrategies(stocks) ==
  IF Len(stocks) < FallbackThreshold
    THEN [phase |-> "fallback", pat |-> NumPatterns, lastIndex |-> 0, stocks |-> stocks]
    ELSE [phase |-> "done", pat |-> NumPatterns, lastIndex |-> 0, stocks |-> stocks]

\* lines 99-134: one evaluation of the while condition and, when it holds,
\* one pass through the loop body
StrategyStep(text, ps, now) ==
  LET m == exec(ps.pat, text, ps.lastIndex)
  IN  IF m.ok /\ Len(ps.stocks) < MaxStocks
        THEN [ps EXCEPT !.lastIndex = m.end,
                        !.stocks = AcceptCandidate(ps.stocks, Candidate(ps.pat, m), now)]
        ELSE IF ps.pat < NumPatterns
          THEN [ps EXCEPT !.pat = ps.pat + 1, !.lastIndex = 0]
          ELSE AfterStrategies(ps.stocks)

\* lines 140-159: one line of responseText.split('\n')
FallbackStep(text, ps, now) ==
  LET from == ps.lastIndex + 1
      le == LineEnd(text, from)
  IN  IF Len(ps.stocks) >= FallbackLimit
        THEN [ps EXCEPT !.phase = "done"]
        ELSE [ps EXCEPT !.phase = IF le >= Len(text) THEN "done" ELSE "fallback",
                        !.lastIndex = le + 1,
                        !.stocks = FallbackLine(ps.stocks, Slice(text, from, le), now)]

ParseStep(text, ps, now) ==
  IF ps.phase = "strategy" THEN StrategyStep(text, ps, now)
  ELSE FallbackStep(text, ps, now)

RECURSIVE ParseRun(_, _, _)
ParseRun(text, ps, now) ==
  IF ps.phase = "done" THEN ps.stocks
  ELSE ParseRun(text, ParseStep(text, ps, now), now)

\* parseStockData(responseText), with `now` the value of new Date()
parseStockData(responseText, now) == ParseRun(responseText, ParseStart, now)

(***************************************************************************)
(* The texts parseStockData is applied to: up to MaxMentions mentions,     *)
(* joined by a blank or by a line break.                                   *)
(***************************************************************************)
\* the shape "TICK (Company) ... $v billion"
TickerParenCompany ==
  <<"X","Y","Z"," ","(","E","x","a","m","p","l","e"," ","C","o","r","p",")",
    " ",".",".","."," ","$","1",".","5"," ","b","i","l","l","i","o","n">>

\* the shape "Company (TICK) ... $v billion", above the threshold
CompanyParenTickerLarge ==
  <<"E","x","a","m","p","l","e"," ","C","o","r","p"," ","(","X","Y","Z",")",
    " ",".",".","."," ","$","2",".","5"," ","b","i","l","l","i","o","n">>

\* the shape "Company (TICK) $v billion"
CompanyParenTicker ==
  <<"E","x","a","m","p","l","e"," ","C","o","r","p"," ","(","X","Y","Z",")",
    " ","$","1",".","5"," ","b","i","l","l","i","o","n">>

\* a lower-case token in the place of the ticker
LowerCaseTicker ==
  <<"a","b","c"," ","(","a","c","m","e"," ","i","n","c",")"," ","$","1",".",
    "5"," ","b","i","l","l","i","o","n">>

\* the shape "TICK: Company - $v billion"
TickerColonCompany ==
  <<"A","B",":"," ","F","o","o"," ","-"," ","$","1",".","9"," ","b","i","l",
    "l","i","o","n">>

\* a free-form line with an enumeration marker, at the threshold
EnumeratedLine ==
  <<"1","."," ","X","Y","Z"," ","$","2",".","0"," ","b","i","l","l","i","o",
    "n">>

\* just above the threshold
JustAbove ==
  <<"X","Y","Z"," ","(","O","t","h","e","r"," ","I","n","c",")"," ","$","2",
    ".","0","1"," ","b","i","l","l","i","o","n">>

\* a market cap that parseFloat makes NaN
NotANumber ==
  <<"A","B"," ","(","F","o","o",")"," ","$","."," ","b","i","l","l","i","o",
    "n">>

\* the unit in upper case
UpperCaseUnit ==
  <<"Q","Q"," ","a","t"," ","$","1"," ","B","I","L","L","I","O","N">>

\* a mixed-case token in the place of the ticker
MixedCaseToken ==
  <<"X","y","z"," ","C","o","r","p",","," ","$","0",".","5"," ","b","i","l",
    "l","i","o","n">>

\* no market cap at all
NoMention ==
  <<"n","o"," ","s","t","o","c","k","s"," ","h","e","r","e">>

Mentions ==
  {TickerParenCompany,
   CompanyParenTickerLarge,
   CompanyParenTicker,
   LowerCaseTicker,
   TickerColonCompany,
   EnumeratedLine,
   JustAbove,
   NotANumber,
   UpperCaseUnit,
   MixedCaseToken,
   NoMention}

\* bounds of the model
MaxMentions == 2

MaxRuns == 2

Separators == {<<" ">>, <<"\n">>}

RECURSIVE Join(_, _)
Join(ms, sep) ==
  IF ms = <<>> THEN <<>>
  ELSE IF Len(ms) = 1 THEN ms[1]
  ELSE ms[1] \o sep \o Join(Tail(ms), sep)

Texts ==
  {Join(ms, sep) : ms \in UNION {[1..n -> Mentions] : n \in 0..MaxMentions},
                   sep \in Separators}

\* answers that list one stock per line: `A<x> $1 billion` is a line every
\* matcher of a capitalization reads, `B<x> $1 BILLION` a line only the
\* fallback reads (its capMatch carries the flag i)
MaxPlainLines == 6

MaxCapsLines == 11

PlainLine(i) == <<"A", UpperSeq[i], " ", "$", "1", " ">> \o Billion

CapsLine(i) == <<"B", UpperSeq[i], " ", "$", "1", " ", "B", "I", "L", "L", "I", "O", "N">>

\* k plain lines followed by m lines with the unit in capitals
LineText(k, m) ==
  Join([i \in 1..(k + m) |-> IF i <= k THEN PlainLine(i) ELSE CapsLine(i - k)],
       <<"\n">>)

LineTexts == {LineText(k, m) : k \in 0..MaxPlainLines, m \in 0..MaxCapsLines}

\* mentions of the two parenthesized shapes, alone or after a leading
\* word: tickers of one, three and five letters, market caps below, at and
\* written as the threshold
ExampleCorp == <<"E", "x", "a", "m", "p", "l", "e", " ", "C", "o", "r", "p">>

ShapeTickers == {<<"X">>, <<"X", "Y", "Z">>, <<"A", "B", "C", "D", "E">>}

ShapeCaps == {<<"1", ".", "5">>, <<"2", ".", "0">>, <<"2">>, <<"0", ".", "7", "5">>}

Leads == {<<>>, <<"B", "u", "y", " ">>}

\* `TICK (Company) ... $v billion`
ShapeOne(ticker, company, cap) ==
  ticker \o <<" ", "(">> \o company \o <<")", " ", ".", ".", ".", " ", "$">> \o cap \o <<" ">> \o Billion

\* `Company (TICK) ... $v billion`
ShapeTwo(ticker, company, cap) ==
  company \o <<" ", "(">> \o ticker \o <<")", " ", ".", ".", ".", " ", "$">> \o cap \o <<" ">> \o Billion

ShapeOneTexts ==
  {lead \o ShapeOne(ticker, ExampleCorp, cap) :
     lead \in Leads, ticker \in ShapeTickers, cap \in ShapeCaps}

ShapeTwoTexts ==
  {lead \o ShapeTwo(ticker, ExampleCorp, cap) :
     lead \in Leads, ticker \in ShapeTickers, cap \in ShapeCaps}

\* text followed by a blank and filler up to n characters
PadTo(text, n) ==
  text \o [i \in 1..(n - Len(text)) |-> IF i = 1 THEN " " ELSE "x"]

\* line 194
MinResponseLength == 100

\* what page.evaluate can return: nothing, an answer one character short
\* of the minimum, answers of the minimum length and longer with stocks in
\* them, and an answer with no stock in it
Responses ==
  {<<>>,
   PadTo(TickerParenCompany, MinResponseLength - 1),
   PadTo(TickerParenCompany, MinResponseLength),
   PadTo(TickerColonCompany, MinResponseLength + 20),
   PadTo(NoMention, MinResponseLength)}

(***************************************************************************)
(* State.                                                                  *)
(***************************************************************************)
\* the callers of bot.runQuery(), each with at most one call in flight:
\* the timer callbacks (the CronJob of line 234 and the setTimeout of line
\* 274, taken not to overlap each other) and GET /run-now (line 250)
Runs == {"timer", "run-now"}

\* the handlers that call bot.cleanup()
Signals == {"SIGTERM", "SIGINT"}

\* the awaits of queryPerplexity, in order
QueryOps == <<"goto", "waitForSelector", "type", "press", "waitForTimeout", "evaluate">>

VARIABLES
  browser,      \* this.browser: 0 is null, s > 0 the s-th session launched
  page,         \* this.page: 0 is null, s > 0 the page of session s
  session,      \* session[s]: "open" or "closed", for every session launched
  pc,           \* pc[r]: the await at which call r of runQuery is suspended
  target,       \* target[r]: the session of the object the awaited call was made on
  error,        \* error[r]: the error caught by runQuery's catch block
  response,     \* response[r]: the responseText call r got from queryPerplexity
  runStocks,    \* runStocks[r]: the stocks array of call r
  result,       \* result[r]: what runQuery returned
  csv,          \* the file at csvPath
  written,      \* the arguments of the saveToCSV calls that wrote, in order
  clock,        \* the time: the number of parseStockData calls so far
  started,      \* the number of calls of runQuery so far
  startupFired, \* the setTimeout of line 272 has fired
  jobRunning,   \* the CronJob has not been stopped
  sigpc,        \* sigpc[g]: where the handler of signal g is
  sigTarget,    \* sigTarget[g]: the session cleanup() is closing
  unhandled,    \* a promise rejection reached the process
  exited,       \* process.exit(0) was called
  input,        \* the argument of the parseStockData call under study
  loop          \* the state of the loops of that call

orchVars ==
  <<browser, page, session, pc, target, error, response, runStocks, result,
    csv, written, started, startupFired, jobRunning, sigpc, sigTarget,
    unhandled, exited>>

parseVars == <<input, loop>>

vars == <<orchVars, clock, parseVars>>

NoResponse == [got |-> FALSE, text |-> <<>>]

NoResult == [success |-> FALSE, error |-> "pending", stockCount |-> 0, stocks |-> <<>>]

\* { success: false, error: error.message }
Failure(e) == [success |-> FALSE, error |-> e, stockCount |-> 0, stocks |-> <<>>]

\* { success: true, stockCount: stocks.length, stocks }
Success(st) == [success |-> TRUE, error |-> "none", stockCount |-> Len(st), stocks |-> st]

\* the state after `const bot = new PerplexityBot()` and the module's
\* top-level code; the dataset file does not exist yet
InitOrch ==
  /\ browser = 0
  /\ page = 0
  /\ session = <<>>
  /\ pc = [r \in Runs |-> "idle"]
  /\ target = [r \in Runs |-> 0]
  /\ error = [r \in Runs |-> "none"]
  /\ response = [r \in Runs |-> NoResponse]
  /\ runStocks = [r \in Runs |-> <<>>]
  /\ result = [r \in Runs |-> NoResult]
  /\ csv = [exists |-> FALSE, lines |-> <<>>]
  /\ written = <<>>
  /\ started = 0
  /\ startupFired = FALSE
  /\ jobRunning = TRUE
  /\ sigpc = [g \in Signals |-> "idle"]
  /\ sigTarget = [g \in Signals |-> 0]
  /\ unhandled = FALSE
  /\ exited = FALSE

Init ==
  /\ InitOrch
  /\ clock = 0
  /\ input = <<>>
  /\ loop = ParseStart

(***************************************************************************)
(* runQuery.  Each action is the code one call runs without suspending:    *)
(* from the settling of the external promise it awaits to the next await   *)
(* on an external promise (or to its return).  The hand-over between the   *)
(* async functions of the class (initBrowser, queryPerplexity, saveToCSV   *)
(* returning to runQuery) is part of the segment.                          *)
(***************************************************************************)
\* the locals of call r after a segment
Local(r, newpc, tg, e, st, res) ==
  /\ pc' = [pc EXCEPT ![r] = newpc]
  /\ target' = [target EXCEPT ![r] = tg]
  /\ error' = [error EXCEPT ![r] = e]
  /\ runStocks' = [runStocks EXCEPT ![r] = st]
  /\ result' = [result EXCEPT ![r] = res]

\* lines 209-217: the catch block, up to `await this.browser.close()`, or
\* to the return when there is no browser.  e stands for error.message:
\* the name of the method whose call of the web client failed, "TypeError",
\* "writeRecords", or the message of line 195
Catch(r, e) ==
  IF browser # 0
    THEN Local(r, "close", browser, e, <<>>, NoResult)
    ELSE Local(r, "returned", 0, "none", <<>>, Failure(e))

\* lines 192, 41-46: queryPerplexity up to `await this.page.goto(...)`;
\* with this.page null the call throws a TypeError
EnterQuery(r) ==
  IF page = 0
    THEN Catch(r, "TypeError")
    ELSE Local(r, "goto", page, "none", <<>>, NoResult)

\* a start of runQuery that launches a browser whether or not one is cached
BeginAlwaysLaunch(r) ==
  /\ ~exited
  /\ pc[r] \in {"idle", "returned", "rejected"}
  /\ started < MaxRuns
  /\ started' = started + 1
  /\ response' = [response EXCEPT ![r] = NoResponse]
  /\ Local(r, "launch", 0, "none", <<>>, NoResult)
  /\ UNCHANGED <<browser, page, session, csv, written, sigpc, sigTarget,
                 unhandled, exited, clock, parseVars>>


\* lines 184-190: runQuery up to its first await
Begin(r) ==
  /\ ~exited
  /\ pc[r] \in {"idle", "returned", "rejected"}
  /\ started < MaxRuns
  /\ started' = started + 1
  /\ response' = [response EXCEPT ![r] = NoResponse]
  /\ IF browser = 0
       THEN Local(r, "launch", 0, "none", <<>>, NoResult)
       ELSE EnterQuery(r)
  /\ UNCHANGED <<browser, page, session, csv, written, sigpc, sigTarget,
                 unhandled, exited, clock, parseVars>>

\* lines 272-275: the timer of the initial query fires
StartupTimer ==
  /\ ~startupFired
  /\ startupFired' = TRUE
  /\ Begin("timer")
  /\ UNCHANGED jobRunning

\* lines 231-239: the CronJob fires
CronTick ==
  /\ jobRunning
  /\ Begin("timer")
  /\ UNCHANGED <<startupFired, jobRunning>>

\* lines 249-250: GET /run-now
RunNow ==
  /\ Begin("run-now")
  /\ UNCHANGED <<startupFired, jobRunning>>

\* an operation on session s (or on its page) can succeed only while the
\* session is open; it can fail at any time
Alive(s) == s \in DOMAIN session /\ session[s] = "open"

\* lines 21-33: puppeteer.launch settles; on success this.browser is set
\* and this.browser.newPage() is called
LaunchDone(r) ==
  /\ ~exited
  /\ pc[r] = "launch"
  /\ \/ /\ session' = Append(session, "open")
        /\ browser' = Len(session) + 1
        /\ Local(r, "newPage", Len(session) + 1, "none", <<>>, NoResult)
     \/ /\ Catch(r, "initBrowser")
        /\ UNCHANGED <<session, browser>>
  /\ UNCHANGED <<page, response, csv, written, started, startupFired,
                 jobRunning, sigpc, sigTarget, unhandled, exited, clock,
                 parseVars>>

\* lines 33-35: newPage settles; on success this.page is set and
\* this.page.setUserAgent(...) is called
NewPageDone(r) ==
  /\ ~exited
  /\ pc[r] = "newPage"
  /\ \/ /\ Alive(target[r])
        /\ page' = target[r]
        /\ Local(r, "setUserAgent", target[r], "none", <<>>, NoResult)
     \/ /\ Catch(r, "initBrowser")
        /\ UNCHANGED page
  /\ UNCHANGED <<browser, session, response, csv, written, started,
                 startupFired, jobRunning, sigpc, sigTarget, unhandled, exited,
                 clock, parseVars>>

\* lines 35-38, 192: setUserAgent settles; on success initBrowser returns
\* and runQuery goes on to queryPerplexity
SetUserAgentDone(r) ==
  /\ ~exited
  /\ pc[r] = "setUserAgent"
  /\ \/ /\ Alive(target[r])
        /\ EnterQuery(r)
     \/ Catch(r, "initBrowser")
  /\ UNCHANGED <<browser, page, session, response, csv, written, started,
                 startupFired, jobRunning, sigpc, sigTarget, unhandled, exited,
                 clock, parseVars>>

\* lines 43-58: one of goto, waitForSelector, type, keyboard.press and
\* waitForTimeout settles; on success the next call is made on this.page.
\* waitForTimeout is a timer: it does not fail.
QueryOpDone(r) ==
  /\ ~exited
  /\ \E i \in 1..(Len(QueryOps) - 1) :
       /\ pc[r] = QueryOps[i]
       /\ \/ /\ Alive(target[r]) \/ QueryOps[i] = "waitForTimeout"
             /\ Local(r, QueryOps[i + 1], page, "none", <<>>, NoResult)
          \/ /\ QueryOps[i] # "waitForTimeout"
             /\ Catch(r, "queryPerplexity")
  /\ UNCHANGED <<browser, page, session, response, csv, written, started,
                 startupFired, jobRunning, sigpc, sigTarget, unhandled, exited,
                 clock, parseVars>>

\* the records of st with their extractedAt set to now
At(st, now) == [i \in DOMAIN st |-> [st[i] EXCEPT !.extractedAt = now]]

\* parseStockData(responseText, now) on the responses of the model: the
\* time shows in extractedAt only, so that one evaluation serves all times
ParsedResponses == [responseText \in Responses |-> parseStockData(responseText, 0)]

Parsed(responseText, now) == At(ParsedResponses[responseText], now)

\* lines 194-207: the response is validated and parsed; with stocks,
\* saveToCSV is entered and csvWriter.writeRecords(stocks) is called
\* a validation that returns success with the parsed records without
\* calling saveToCSV
ValidateSkippingWrite(r, responseText, now) ==
  IF responseText = <<>> \/ Len(responseText) < MinResponseLength
    THEN Catch(r, "Response too short or empty")
    ELSE LET st == Parsed(responseText, now)
         IN  IF Len(st) > 0
               THEN Local(r, "returned", 0, "none", <<>>, Success(st))
               ELSE Local(r, "returned", 0, "none", <<>>, Failure("No stocks extracted"))

\* a validation that throws 'No stocks extracted' into the catch block instead
\* of returning it
ValidateThrowing(r, responseText, now) ==
  IF responseText = <<>> \/ Len(responseText) < MinResponseLength
    THEN Catch(r, "Response too short or empty")
    ELSE LET st == Parsed(responseText, now)
         IN  IF Len(st) > 0
               THEN Local(r, "writeRecords", 0, "none", st, NoResult)
               ELSE Catch(r, "No stocks extracted")

Validate(r, responseText, now) ==
  IF responseText = <<>> \/ Len(responseText) < MinResponseLength
    THEN Catch(r, "Response too short or empty")
    ELSE LET st == Parsed(responseText, now)
         IN  IF Len(st) > 0
               THEN Local(r, "writeRecords", 0, "none", st, NoResult)
               ELSE Local(r, "returned", 0, "none", <<>>, Failure("No stocks extracted"))

\* lines 58-80, 192-207: page.evaluate settles
EvaluateDone(r) ==
  /\ ~exited
  /\ pc[r] = "evaluate"
  /\ \/ /\ Alive(target[r])
        /\ \E responseText \in Responses :
             /\ response' = [response EXCEPT ![r] = [got |-> TRUE, text |-> responseText]]
             /\ Validate(r, responseText, clock)
        /\ clock' = clock + 1
     \/ /\ Catch(r, "queryPerplexity")
        /\ UNCHANGED <<response, clock>>
  /\ UNCHANGED <<browser, page, session, csv, written, started, startupFired,
                 jobRunning, sigpc, sigTarget, unhandled, exited, parseVars>>

\* the header option of createCsvWriter (lines 171-176)
Header == <<"Ticker", "Company Name", "Market Cap", "Extracted At">>

\* the lines of the file: the header line holds the titles, a row holds the
\* ticker, company, marketCap and extractedAt fields of one record
HeaderLine == [header |-> TRUE, fields |-> Header]

Row(record) == [header |-> FALSE, fields |-> record]

\* lines 169-180: csvWriter.writeRecords(stocks) of a writer created with
\* append: true.  Such a writer creates the file when it is missing and
\* writes the records only: it writes the header line when append is false.
\* a write that replaces the file: the header line and the records
saveToCSVOverwrite(file, records, append) ==
  [exists |-> TRUE,
   lines |-> <<HeaderLine>> \o [i \in DOMAIN records |-> Row(records[i])]]

saveToCSV(file, records, append) ==
  [exists |-> TRUE,
   lines |-> (IF append THEN file.lines ELSE <<HeaderLine>>)
               \o [i \in DOMAIN records |-> Row(records[i])]]

\* lines 180-181, 201-203: writeRecords settles
WriteDone(r) ==
  /\ ~exited
  /\ pc[r] = "writeRecords"
  /\ \/ /\ csv' = saveToCSV(csv, runStocks[r], TRUE)
        /\ written' = Append(written, runStocks[r])
        /\ Local(r, "returned", 0, "none", <<>>, Success(runStocks[r]))
     \/ /\ Catch(r, "writeRecords")
        /\ UNCHANGED <<csv, written>>
  /\ UNCHANGED <<browser, page, session, response, started, startupFired,
                 jobRunning, sigpc, sigTarget, unhandled, exited, clock,
                 parseVars>>

\* browser.close() on session s has settled without an error
Closed(s) == [session EXCEPT ![s] = "closed"]

\* lines 213-217: this.browser.close() settles; on success the handle is
\* cleared and the failure is returned; an error of close() is thrown out
\* of the catch block, so that the promise of runQuery is rejected, which
\* none of the callers (lines 234, 250, 274) handles
CloseDone(r) ==
  /\ ~exited
  /\ pc[r] = "close"
  /\ \/ /\ session' = Closed(target[r])
        /\ browser' = 0
        /\ Local(r, "returned", 0, "none", <<>>, Failure(error[r]))
        /\ UNCHANGED unhandled
     \/ /\ Local(r, "rejected", 0, "none", <<>>, NoResult)
        /\ unhandled' = TRUE
        /\ UNCHANGED <<session, browser>>
  /\ UNCHANGED <<page, response, csv, written, started, startupFired,
                 jobRunning, sigpc, sigTarget, exited, clock, parseVars>>

(***************************************************************************)
(* Shutdown: the SIGTERM and SIGINT handlers.                              *)
(***************************************************************************)
\* lines 277-280, 221-223: job.stop() and cleanup() up to
\* `await this.browser.close()`; without a browser, process.exit(0)
Signal(g) ==
  /\ ~exited
  /\ sigpc[g] = "idle"
  /\ jobRunning' = FALSE
  /\ IF browser # 0
       THEN /\ sigpc' = [sigpc EXCEPT ![g] = "close"]
            /\ sigTarget' = [sigTarget EXCEPT ![g] = browser]
            /\ UNCHANGED exited
       ELSE /\ sigpc' = [sigpc EXCEPT ![g] = "done"]
            /\ exited' = TRUE
            /\ UNCHANGED sigTarget
  /\ UNCHANGED <<browser, page, session, pc, target, error, response,
                 runStocks, result, csv, written, started, startupFired,
                 unhandled, clock, parseVars>>

\* a cleanup whose close() settles without the handle being cleared
cleanupKeepingHandle(g) ==
  /\ ~exited
  /\ sigpc[g] = "close"
  /\ \/ /\ session' = Closed(sigTarget[g])
        /\ sigpc' = [sigpc EXCEPT ![g] = "done"]
        /\ exited' = TRUE
        /\ UNCHANGED <<browser, unhandled>>
     \/ /\ sigpc' = [sigpc EXCEPT ![g] = "rejected"]
        /\ unhandled' = TRUE
        /\ UNCHANGED <<session, browser, exited>>
  /\ sigTarget' = [sigTarget EXCEPT ![g] = 0]
  /\ UNCHANGED <<page, pc, target, error, response, runStocks, result, csv,
                 written, started, startupFired, jobRunning, clock, parseVars>>


\* lines 223-225, 281: close() settles; on success the handle is cleared
\* and the process exits; an error of close() rejects the handler's promise
cleanup(g) ==
  /\ ~exited
  /\ sigpc[g] = "close"
  /\ \/ /\ session' = Closed(sigTarget[g])
        /\ browser' = 0
        /\ sigpc' = [sigpc EXCEPT ![g] = "done"]
        /\ exited' = TRUE
        /\ UNCHANGED unhandled
     \/ /\ sigpc' = [sigpc EXCEPT ![g] = "rejected"]
        /\ unhandled' = TRUE
        /\ UNCHANGED <<session, browser, exited>>
  /\ sigTarget' = [sigTarget EXCEPT ![g] = 0]
  /\ UNCHANGED <<page, pc, target, error, response, runStocks, result, csv,
                 written, started, startupFired, jobRunning, clock, parseVars>>

Next ==
  \/ StartupTimer
  \/ CronTick
  \/ RunNow
  \/ \E r \in Runs : LaunchDone(r)
  \/ \E r \in Runs : NewPageDone(r)
  \/ \E r \in Runs : SetUserAgentDone(r)
  \/ \E r \in Runs : QueryOpDone(r)
  \/ \E r \in Runs : EvaluateDone(r)
  \/ \E r \in Runs : WriteDone(r)
  \/ \E r \in Runs : CloseDone(r)
  \/ \E g \in Signals : Signal(g)
  \/ \E g \in Signals : cleanup(g)

Spec == Init /\ [][Next]_vars

(***************************************************************************)
(* parseStockData on its own: the text is drawn from Texts and each step    *)
(* is one pass through one of its loops.                                   *)
(***************************************************************************)
InitParse ==
  /\ InitOrch
  /\ clock = 0
  /\ input \in Texts \cup LineTexts \cup ShapeOneTexts \cup ShapeTwoTexts
  /\ loop = ParseStart

\* lines 99-134
ParseStrategy ==
  /\ loop.phase = "strategy"
  /\ loop' = StrategyStep(input, loop, clock)
  /\ UNCHANGED <<orchVars, clock, input>>

\* lines 136-160
ParseFallback ==
  /\ loop.phase = "fallback"
  /\ loop' = FallbackStep(input, loop, clock)
  /\ UNCHANGED <<orchVars, clock, input>>

NextParse == ParseStrategy \/ ParseFallback

ParseSpec == InitParse /\ [][NextParse]_vars

-----------------------------------------------------------------------------
\* Properties of runQuery, saveToCSV and the session, checked under Spec

ShortError == "Response too short or empty"

\* error.message of the failures of queryPerplexity and of the validation
QueryErrors == {"queryPerplexity", "TypeError", ShortError}

InProgress(r) == pc[r] \notin {"idle", "returned", "rejected"}

OpenSessions == {s \in DOMAIN session : session[s] = "open"}

Range(s) == {s[i] : i \in DOMAIN s}

\* C1: a call whose query step or response validation failed while a session
\* was cached leaves its failure handling by returning a failure result,
\* with the session it closed closed and the cached handle cleared, so that
\* the next call launches a new session.
C1_QueryFailureClearsSession ==
  [][\A r \in Runs :
       (pc[r] = "close" /\ error[r] \in QueryErrors /\ pc'[r] # "close")
         => /\ pc'[r] = "returned"
            /\ ~result'[r].success
            /\ result'[r].error = error[r]
            /\ session'[target[r]] = "closed"
            /\ browser' = 0]_vars

\* C2: no call of runQuery ends by rejecting: whatever step failed, the
\* call returns a result.
C2_NeverRejects == \A r \in Runs : pc[r] # "rejected"

\* C3: the step in which writeRecords fails returns a failure result and
\* leaves the session open and the cached handle as it was.
C3_WriteFailureKeepsSession ==
  [][\A r \in Runs :
       (pc[r] = "writeRecords" /\ pc'[r] # "writeRecords" /\ ~result'[r].success)
         => /\ pc'[r] = "returned"
            /\ result'[r].error = "writeRecords"
            /\ browser' = browser
            /\ session' = session]_vars

\* C4: at most one session is open at any time.
C4_AtMostOneSession == Cardinality(OpenSessions) <= 1

\* C5: when no call of runQuery or cleanup is in progress, every session
\* that is still open is the one this.browser refers to.
C5_NoSessionLeaked ==
  ((\A r \in Runs : ~InProgress(r)) /\ (\A g \in Signals : sigpc[g] # "close"))
    => \A s \in OpenSessions : s = browser

\* the call r takes a step of the handling of a too short response
ShortResponseStep(r) ==
  /\ pc'[r] # pc[r]
  /\ \/ pc[r] = "evaluate" /\ response'[r].got
        /\ Len(response'[r].text) < MinResponseLength
     \/ pc[r] = "close" /\ error[r] = ShortError

\* C6: a call whose response is empty or shorter than 100 characters writes
\* nothing to the file in any of its steps and ends by returning the
\* failure result of the too short response.
C6_ShortResponseFailsWithoutWrite ==
  [][\A r \in Runs :
       ShortResponseStep(r)
         => /\ csv' = csv
            /\ pc'[r] \in {"close", "returned"}
            /\ pc'[r] = "returned" => result'[r] = Failure(ShortError)]_vars

\* a response of valid length from which parseStockData extracts nothing
ValidWithoutRecords(resp) ==
  /\ resp.got
  /\ Len(resp.text) >= MinResponseLength
  /\ ParsedResponses[resp.text] = <<>>

\* C7: the step in which a call receives a response of valid length with no
\* extractable record returns a failure result whose error is not the one
\* of a too short response, writes nothing and leaves the session and the
\* cached handle as they were.
C7_NoRecordsFailsKeepingSession ==
  [][\A r \in Runs :
       (pc[r] = "evaluate" /\ ValidWithoutRecords(response'[r]))
         => /\ pc'[r] = "returned"
            /\ ~result'[r].success
            /\ result'[r].error \notin {ShortError, "pending", "none"}
            /\ csv' = csv
            /\ written' = written
            /\ browser' = browser
            /\ session' = session]_vars

\* a call has returned 'No stocks extracted' and the session it used is
\* still open and cached
C7_ReturnedNoRecords ==
  \E r \in Runs :
    /\ pc[r] = "returned"
    /\ ValidWithoutRecords(response[r])
    /\ result[r] = Failure("No stocks extracted")
    /\ browser \in OpenSessions
    /\ ~csv.exists

HeaderLines == {i \in DOMAIN csv.lines : csv.lines[i].header}

\* C8: after two saveToCSV calls with disjoint record sets the file holds
\* the header once, as its first line, and after it exactly the rows of
\* the two calls.
C8_HeaderOnceRowsUnion ==
  (Len(written) = 2 /\ Range(written[1]) \cap Range(written[2]) = {})
    => /\ HeaderLines = {1}
       /\ Len(csv.lines) = 1 + Len(written[1]) + Len(written[2])
       /\ {csv.lines[i].fields : i \in DOMAIN csv.lines \ {1}}
            = Range(written[1]) \cup Range(written[2])

Settled == {"idle", "returned", "rejected"}

\* the result of a call that ended without an error being thrown
EndedWithoutError(res) == res.success \/ res.error = "No stocks extracted"

\* C15: a call launches a browser only when it started with no browser
\* cached, and sessions are created by launching calls only; the step that
\* ends a call without an error being thrown leaves the handle and the
\* sessions as they were; a call that starts with a browser cached launches
\* none; and when calls run one after the other, a call that ended without
\* an error leaves an open session cached.
C15_SessionReuse ==
  /\ [][\A r \in Runs :
          /\ (pc[r] \in Settled /\ pc'[r] \notin Settled)
               => /\ session' = session /\ browser' = browser
                  /\ pc'[r] = "launch" <=> browser = 0
          /\ (pc[r] # "launch" /\ pc'[r] = "launch") => pc[r] \in Settled
          /\ (pc[r] \notin Settled /\ pc'[r] = "returned" /\ EndedWithoutError(result'[r]))
               => (browser' = browser /\ session' = session)]_vars
  /\ [][Len(session') > Len(session) => \E r \in Runs : pc[r] = "launch"]_vars
  /\ []((/\ pc["run-now"] = "idle"
          /\ \A g \in Signals : sigpc[g] = "idle"
          /\ pc["timer"] = "returned"
          /\ EndedWithoutError(result["timer"]))
         => browser \in OpenSessions)

\* the second of two calls made one after the other has succeeded on the
\* session the first one launched
C15_SecondRunReused ==
  /\ started = 2
  /\ pc["run-now"] = "idle"
  /\ pc["timer"] = "returned"
  /\ result["timer"].success
  /\ Len(written) = 2
  /\ session = <<"open">>
  /\ browser = 1

-----------------------------------------------------------------------------
\* Properties of parseStockData, checked under ParseSpec

Tickers(st) == {st[i].ticker : i \in DOMAIN st}

UniqueTickers(st) ==
  \A i, j \in DOMAIN st : st[i].ticker = st[j].ticker => i = j

IsPrefix(s, t) == Len(s) <= Len(t) /\ \A i \in DOMAIN s : t[i] = s[i]

\* the match the strategy loop is about to process, as a candidate
PendingCandidate ==
  Candidate(loop.pat, exec(loop.pat, input, loop.lastIndex))

\* C9: within one parseStockData call no two records of the list carry the
\* same ticker, and a record once accepted stays in the list at its position
\* unchanged: a later candidate with the same normalized ticker is discarded.
C9_UniqueTickersFirstWins ==
  /\ [](UniqueTickers(loop.stocks))
  /\ [][IsPrefix(loop.stocks, loop'.stocks)]_vars

\* the strategy loop holds an acceptable candidate whose normalized ticker
\* is already in the list
C9_DuplicateCandidate ==
  /\ loop.phase = "strategy"
  /\ exec(loop.pat, input, loop.lastIndex).ok
  /\ Accepted(PendingCandidate)
  /\ HasTicker(loop.stocks, NormalizeTicker(PendingCandidate.ticker))

\* the number a record's marketCap field `$<n>B` was formatted from
CapOf(record) == Slice(record.marketCap, 2, Len(record.marketCap) - 1)

ValidTicker(ticker) ==
  /\ Len(ticker) \in 1..5
  /\ \A i \in DOMAIN ticker : ticker[i] \in Upper

\* C10: every record parseStockData has accepted has a market cap that
\* parses to a number of at most 2.0 and a ticker of one to five uppercase
\* letters; a text whose only mention states 2.5 billion yields no record
\* for the mention's ticker.
C10_SmallCapAndTickerShape ==
  /\ \A i \in DOMAIN loop.stocks :
       /\ SmallCap(CapOf(loop.stocks[i]))
       /\ ValidTicker(loop.stocks[i].ticker)
  /\ input = CompanyParenTickerLarge => <<"X", "Y", "Z">> \notin Tickers(loop.stocks)

\* C11: the fallback is entered only with fewer than 5 records accepted by
\* the strategy loops; with 5 or more the call ends with the list of the
\* strategy loops as it is; and no step of the fallback leaves more than 10
\* records in the list.
C11_FallbackThresholds ==
  [][/\ (loop.phase = "strategy" /\ loop'.phase = "fallback")
          => Len(loop.stocks) < 5
     /\ (loop.phase = "strategy" /\ loop'.phase # "strategy" /\ Len(loop.stocks) >= 5)
          => (loop'.phase = "done" /\ loop'.stocks = loop.stocks)
     /\ loop.phase = "fallback"
          => (Len(loop'.stocks) <= 10 /\ IsPrefix(loop.stocks, loop'.stocks))]_vars

\* the fallback has brought the list to 10 records, the last of them its
\* own, and lines are left to read
C11_FallbackAtLimit ==
  /\ loop.phase = "fallback"
  /\ Len(loop.stocks) = 10
  /\ loop.stocks[10].company = PlaceholderCompany(loop.stocks[10].ticker)
  /\ loop.lastIndex < Len(input)

\* C12: tickers are matched case-sensitively, so that a text without any
\* uppercase letter, whose ticker-like tokens are all lowercase, yields no
\* record.
C12_LowercaseYieldsNoRecord ==
  (\A i \in DOMAIN input : input[i] \notin Upper) => loop.stocks = <<>>

\* sub occurs in s
Contains(s, sub) ==
  \E i \in 1..(Len(s) - Len(sub) + 1) : SubSeq(s, i, i + Len(sub) - 1) = sub

HasRecord(st, ticker, company, cap) ==
  \E i \in DOMAIN st :
    /\ st[i].ticker = ticker
    /\ st[i].company = company
    /\ st[i].marketCap = <<"$">> \o cap \o <<"B">>

C14_CompanyParenTickerFields ==
  \A lead \in Leads, ticker \in ShapeTickers, cap \in ShapeCaps :
    input = lead \o ShapeTwo(ticker, ExampleCorp, cap)
      => /\ \A i \in DOMAIN loop.stocks :
              /\ loop.stocks[i].ticker = ticker
              /\ Contains(loop.stocks[i].company, ExampleCorp)
         /\ loop.phase = "done" => loop.stocks # <<>>

-----------------------------------------------------------------------------
\* Further properties of the file and of runQuery, checked under Spec

\* the records of the rows of the file, in order
DataRows(file) ==
  LET rows == SelectSeq(file.lines, LAMBDA l : ~l.header)
  IN  [i \in DOMAIN rows |-> rows[i].fields]

RECURSIVE Flatten(_)
Flatten(batches) ==
  IF batches = <<>> THEN <<>> ELSE Head(batches) \o Flatten(Tail(batches))

\* C16: every step leaves the lines of the file in place and in order, the
\* file changes only in the step in which a call's writeRecords succeeds,
\* and the rows of the file are the records of all the writes one after the
\* other, equal tickers of different writes included.
C16_AppendLog ==
  /\ [][IsPrefix(csv.lines, csv'.lines)]_vars
  /\ [][csv' # csv
          => \E r \in Runs : /\ pc[r] = "writeRecords"
                             /\ pc'[r] = "returned"
                             /\ result'[r].success]_vars
  /\ [](DataRows(csv) = Flatten(written))

\* two writes of records with the same tickers have left both copies
C16_BothCopiesKept ==
  /\ Len(written) = 2
  /\ Tickers(written[1]) = Tickers(written[2])
  /\ Len(DataRows(csv)) = Len(written[1]) + Len(written[2])
  /\ \E i, j \in DOMAIN csv.lines :
       i < j /\ csv.lines[i].fields.ticker = csv.lines[j].fields.ticker

\* C17: the step in which a call returns success is the one in which its
\* writeRecords succeeded: the records it returns are those parsed from its
\* response, at least one, counted by stockCount, and they are what the
\* step appended to the file; and nothing is written other than the records
\* a call returns with success in the same step.
C17_SuccessMeansWritten ==
  /\ [][\A r \in Runs :
          (pc[r] \notin Settled /\ pc'[r] = "returned" /\ result'[r].success)
            => LET st == result'[r].stocks
               IN  /\ pc[r] = "writeRecords"
                   /\ response[r].got
                   /\ At(st, 0) = ParsedResponses[response[r].text]
                   /\ Len(st) >= 1
                   /\ result'[r].stockCount = Len(st)
                   /\ written' = Append(written, st)
                   /\ DataRows(csv') = DataRows(csv) \o st]_vars
  /\ [][written' # written
          => \E r \in Runs : /\ pc[r] = "writeRecords"
                             /\ pc'[r] = "returned"
                             /\ result'[r].success
                             /\ written' = Append(written, result'[r].stocks)]_vars

\* a call has returned success with the records that are the rows of the file
C17_ReturnedSuccess ==
  \E r \in Runs :
    /\ pc[r] = "returned"
    /\ result[r].success
    /\ result[r].stockCount >= 1
    /\ DataRows(csv) = result[r].stocks

\* C18: a cleanup called with no browser cached changes neither the handle
\* nor any session and ends at once; called with a browser cached it awaits
\* the close() of that browser, and when the close() has resolved that
\* session is closed, no other session has changed and the handle is
\* cleared, which is the state in which a further call changes nothing.
C18_CleanupIdempotent ==
  [][\A g \in Signals :
       /\ (sigpc[g] = "idle" /\ sigpc'[g] # "idle" /\ browser = 0)
            => (sigpc'[g] = "done" /\ session' = session /\ browser' = 0)
       /\ (sigpc[g] = "idle" /\ sigpc'[g] # "idle" /\ browser # 0)
            => /\ sigpc'[g] = "close"
               /\ sigTarget'[g] = browser
               /\ session' = session
               /\ browser' = browser
       /\ (sigpc[g] = "close" /\ sigpc'[g] = "done")
            => /\ session'[sigTarget[g]] = "closed"
               /\ \A s \in DOMAIN session \ {sigTarget[g]} : session'[s] = session[s]
               /\ browser' = 0]_vars

\* a cleanup has closed the session of a call that had returned success
C18_CleanupClosedSession ==
  /\ \E g \in Signals : sigpc[g] = "done"
  /\ session = <<"closed">>
  /\ browser = 0
  /\ pc["timer"] = "returned"
  /\ result["timer"].success
  /\ pc["run-now"] = "idle"

\* the calls queryPerplexity makes on this.page
QueryCalls == {QueryOps[i] : i \in DOMAIN QueryOps}

\* C19: no call finds this.page unset when it enters queryPerplexity, and
\* every call queryPerplexity makes is made on a page of a session that is
\* open at that time.
C19_QueryOnLivePage ==
  /\ [](\A r \in Runs : error[r] # "TypeError" /\ result[r].error # "TypeError")
  /\ [][\A r \in Runs :
          (pc'[r] # pc[r] /\ pc'[r] \in QueryCalls) => Alive(target'[r])]_vars

-----------------------------------------------------------------------------
\* Termination of runQuery.  Every call made on the web client and
\* writeRecords settle: the action that stands for the settling of a pending
\* call is taken when it stays enabled.
Fairness ==
  \A r \in Runs :
    /\ WF_vars(LaunchDone(r))
    /\ WF_vars(NewPageDone(r))
    /\ WF_vars(SetUserAgentDone(r))
    /\ WF_vars(QueryOpDone(r))
    /\ WF_vars(EvaluateDone(r))
    /\ WF_vars(WriteDone(r))
    /\ WF_vars(CloseDone(r))

FairSpec == Spec /\ Fairness

\* the order of the awaited calls of one runQuery call
StepOrder ==
  <<"launch", "newPage", "setUserAgent", "goto", "waitForSelector", "type",
    "press", "waitForTimeout", "evaluate", "writeRecords", "close">>

Rank(step) == CHOOSE i \in DOMAIN StepOrder : StepOrder[i] = step

\* C20: a call that is running goes through its steps in their order, a
\* call that has ended has returned a success or a failure result, never
\* rejected, and every call that is running ends, unless the process exits.
C20_EveryRunTerminates ==
  /\ [][\A r \in Runs :
          (pc[r] \notin Settled /\ pc'[r] \notin Settled /\ pc'[r] # pc[r])
            => Rank(pc'[r]) > Rank(pc[r])]_vars
  /\ [](\A r \in Runs :
          /\ pc[r] = "returned"
               => (result[r].success \/ result[r].error \notin {"pending", "none"})
          /\ pc[r] # "rejected")
  /\ \A r \in Runs : (pc[r] \notin Settled) ~> (pc[r] = "returned" \/ exited)

====
